---- MODULE Spec2Model ----
(***************************************************************************)
(* Model of tally's Composition: the normalising constructor                *)
(* (Composition.__init__), the binary operators | and &, the structural     *)
(* metrics depth and max_arity, save/load through a JSON tree record, and   *)
(* the constrained random generator.                                        *)
(*                                                                          *)
(* A composition is the record [label |-> l, terms |-> <<t1, ..., tn>>];    *)
(* equality of the frozen dataclass is equality of (terms, label), which is *)
(* equality of these records.                                               *)
(***************************************************************************)
EXTENDS Integers, Sequences, FiniteSets, TLC

\* ---------------------------------------------------------------- bounds
\* Largest number of terms passed to one constructor call.
MaxArity == 3
\* Largest total number of nodes of the values held at once (x, y and the file).
MaxNodes == 6
\* Largest min_depth and max_depth passed to Composition.random.
MaxDepth == 2
\* Largest max_arity passed to Composition.random.
MaxArityArg == 3
\* Largest max_trials passed to Composition.random.
MaxTrials == 2

\* ---------------------------------------------------------------- labels
Horizontal == "Horizontal"
Vertical == "Vertical"
Empty == "Empty"
Label == {Horizontal, Vertical, Empty}

\* The empty composition e = Empty().
e == [label |-> Empty, terms |-> <<>>]

\* ------------------------------------------------------------ constructor
RECURSIVE Composition(_, _)
RECURSIVE SumTerms(_)

\* Mutant of Precondition: a label with no terms always passes.
PreconditionNoTermsPass(terms, label) ==
    \/ (Len(terms) > 0 /\ label \in {Horizontal, Vertical})
    \/ Len(terms) = 0

\* The assert of __init__: terms with Horizontal/Vertical, or no terms with Empty.
Precondition(terms, label) ==
    \/ (Len(terms) > 0 /\ label \in {Horizontal, Vertical})
    \/ (Len(terms) = 0 /\ label = Empty)

\* labels = set(t.label for t in terms)
labels(terms) == {terms[j].label : j \in DOMAIN terms}

\* lengths = set(len(t.terms) for t in terms)
lengths(terms) == {Len(terms[j].terms) : j \in DOMAIN terms}

\* len(labels) == len(lengths) == 1
AllAlike(terms) ==
    Cardinality(labels(terms)) = 1 /\ Cardinality(lengths(terms)) = 1

\* sum([t.terms for t in terms], ()): the children's terms, concatenated in order.
SumTerms(terms) ==
    IF terms = <<>> THEN <<>>
    ELSE Head(terms).terms \o SumTerms(Tail(terms))

\* Mutant of Flatten: the children are never spliced.
FlattenNever(terms, label, label_of_each) == terms

\* Mutant of Flatten: the children are spliced whatever their label is.
FlattenAnyLabel(terms, label, label_of_each) == SumTerms(terms)

\* Mutant of Flatten: only the first child is spliced.
FlattenFirstOnly(terms, label, label_of_each) ==
    IF label = label_of_each THEN Head(terms).terms \o Tail(terms) ELSE terms

\* The terms after the first rewrite: spliced when the children carry the
\* label of the node being built, unchanged otherwise.
Flatten(terms, label, label_of_each) ==
    IF label = label_of_each THEN SumTerms(terms) ELSE terms

\* Mutant of TransposeRow: every row is the first row.
TransposeRowFirst(terms, i) ==
    Composition([j \in 1..Len(terms) |-> terms[j].terms[1]], Horizontal)

\* Mutant of TransposeRow: the row takes the columns right to left.
TransposeRowReversed(terms, i) ==
    Composition([j \in 1..Len(terms) |-> terms[Len(terms) + 1 - j].terms[i]], Horizontal)

\* Row i of the transposed grid: Horizontal(terms[0].terms[i], ..., terms[n-1].terms[i]),
\* built through the constructor.
TransposeRow(terms, i) ==
    Composition([j \in 1..Len(terms) |-> terms[j].terms[i]], Horizontal)

\* Mutant of TransposeCase: the grid is never transposed.
TransposeNever(label, label_of_each) == FALSE

\* Mutant of TransposeCase: Vertical over Horizontal is transposed too.
TransposeBothWays(label, label_of_each) ==
    {label, label_of_each} = {Horizontal, Vertical}

\* Does the second rewrite fire: (label, label_of_each) == (Horizontal, Vertical).
TransposeCase(label, label_of_each) ==
    label = Horizontal /\ label_of_each = Vertical

\* Mutant of Composition: the transposed grid keeps the label Horizontal.
CompositionKeepsLabel(terms, label) ==
    IF AllAlike(terms)
    THEN LET label_of_each == CHOOSE l \in labels(terms) : TRUE
             length_of_each == CHOOSE n \in lengths(terms) : TRUE
             flat == Flatten(terms, label, label_of_each)
         IN  IF TransposeCase(label, label_of_each)
             THEN [label |-> label,
                   terms |-> [i \in 1..length_of_each |-> TransposeRow(flat, i)]]
             ELSE [label |-> label, terms |-> flat]
    ELSE [label |-> label, terms |-> terms]

\* Composition.__init__(*terms, label) for arguments that pass the assert.
Composition(terms, label) ==
    IF AllAlike(terms)
    THEN LET label_of_each == CHOOSE l \in labels(terms) : TRUE
             length_of_each == CHOOSE n \in lengths(terms) : TRUE
             flat == Flatten(terms, label, label_of_each)
         IN  IF TransposeCase(label, label_of_each)
             THEN [label |-> Vertical,
                   terms |-> [i \in 1..length_of_each |-> TransposeRow(flat, i)]]
             ELSE [label |-> label, terms |-> flat]
    ELSE [label |-> label, terms |-> terms]

\* ---------------------------------------------------------------- metrics
RECURSIVE depth(_)
RECURSIVE max_arity(_)

Max(S) == CHOOSE x \in S : \A y \in S : y <= x

\* max([0] + [t.depth + 1 for t in self.terms])
depth(c) == Max({0} \cup {depth(c.terms[j]) + 1 : j \in DOMAIN c.terms})

\* max([len(self.terms)] + [t.max_arity for t in self.terms])
max_arity(c) ==
    Max({Len(c.terms)} \cup {max_arity(c.terms[j]) : j \in DOMAIN c.terms})

\* -------------------------------------------------------------- save/load
RECURSIVE asdict(_)
RECURSIVE from_dict(_)

\* The value of a member of the enum Label(str, Enum), as json.dumps writes it.
LabelValue(label) ==
    CASE label = Horizontal -> "H"
      [] label = Vertical -> "V"
      [] label = Empty -> "e"

\* Mutant of LabelOfValue: "H" and "V" are read the other way round.
LabelOfValueSwapped(value) ==
    CASE value = "H" -> Vertical
      [] value = "V" -> Horizontal
      [] value = "e" -> Empty

\* Label(value): the member of the enum with that value.
LabelOfValue(value) ==
    CASE value = "H" -> Horizontal
      [] value = "V" -> Vertical
      [] value = "e" -> Empty

\* json.loads(json.dumps(asdict(self))): the tree of {'terms': [...], 'label': value}.
asdict(c) ==
    [terms |-> [j \in 1..Len(c.terms) |-> asdict(c.terms[j])],
     label |-> LabelValue(c.label)]

\* Label(tree['label'])(*map(Composition.from_dict, tree['terms'])): every node
\* is rebuilt through the constructor, children first.
from_dict(tree) ==
    Composition([j \in 1..Len(tree.terms) |-> from_dict(tree.terms[j])],
                LabelOfValue(tree.label))

RECURSIVE to_dict(_)

\* Composition.to_dict: {'label': 'e'} without terms for a composition with
\* no terms, else {'label': 'H' or 'V', 'terms': [...]}.
to_dict(c) ==
    IF c.terms = <<>>
    THEN [label |-> "e"]
    ELSE [label |-> IF c.label = Horizontal THEN "H" ELSE "V",
          terms |-> [j \in 1..Len(c.terms) |-> to_dict(c.terms[j])]]

\* ------------------------------------------------------- random generator
\* min_depth=None: a value that no depth takes.
None == -1

\* Defaults of Composition.random, which the recursive calls for the children
\* run with: they pass neither max_trials nor max_arity.
max_trials_default == 10
max_arity_default == 3

\* random.random() lies in [0, 1): modelled in quarters, 0 .. 3 of 4.
Draws == 0..3

\* prob_empty in quarters: 0, the default .25, and 1.
ProbEmpty == {0, 1, 4}

\* not v, for v an integer or None
Falsy(v) == v = None \/ v = 0

\* (min_depth or 0)
OrZero(v) == IF Falsy(v) THEN 0 ELSE v

\* range(2, max_arity)
Arities(k) == 2..(k - 1)

\* Mutant of ReturnsEmpty: the recursion stops one level too late.
ReturnsEmptyBelowZero(min_d, max_d, p) ==
    IF max_d < 0
    THEN {TRUE}
    ELSE IF Falsy(min_d) THEN {u <= p : u \in Draws} ELSE {FALSE}

\* The outcomes of
\*   not max_depth or not min_depth and random.random() <= prob_empty:
\* the draw is made only when max_depth is not 0 and min_depth is None or 0.
ReturnsEmpty(min_d, max_d, p) ==
    IF Falsy(max_d)
    THEN {TRUE}
    ELSE IF Falsy(min_d) THEN {u <= p : u \in Draws} ELSE {FALSE}

\* Mutant of Accepted: the depth of the candidate is not tested.
AcceptedIgnoringDepth(result, min_d, k) ==
    ~(max_arity(result) > k)

\* not (result.max_arity > max_arity or result.depth < (min_depth or 0))
Accepted(result, min_d, k) ==
    ~(max_arity(result) > k \/ depth(result) < OrZero(min_d))

RECURSIVE RandomValues(_, _, _, _, _)
RECURSIVE RandomRaises(_, _, _, _, _)

\* The values the call for one child can return: min_depth=None,
\* max_depth=max_depth - 1, the caller's prob_empty, and the defaults.
ChildValues(max_d, p) ==
    RandomValues(None, max_d - 1, p, max_arity_default, max_trials_default)

\* The exceptions the call for one child can raise.
ChildRaises(max_d, p) ==
    RandomRaises(None, max_d - 1, p, max_arity_default, max_trials_default)

\* The results one trial can build: cls(*children) for cls in
\* [Horizontal, Vertical], n_terms in range(2, max_arity) and each child any
\* value its call can return.
Candidates(max_d, p, k) ==
    {Composition(ts, cls) :
        cls \in {Horizontal, Vertical},
        ts \in UNION {[1..n -> ChildValues(max_d, p)] : n \in Arities(k)}}

\* Every value Composition.random can return, over all draws: e from the
\* first test, or a candidate that a trial accepts.
RandomValues(min_d, max_d, p, k, trials) ==
    LET first == ReturnsEmpty(min_d, max_d, p)
    IN  (IF TRUE \in first THEN {e} ELSE {})
        \cup (IF FALSE \in first /\ trials > 0
              THEN {r \in Candidates(max_d, p, k) : Accepted(r, min_d, k)}
              ELSE {})

\* Every exception Composition.random can raise, over all draws: IndexError
\* from random.choice on an empty range, RuntimeError when every trial is
\* rejected, or what the call for a child raises.
RandomRaises(min_d, max_d, p, k, trials) ==
    IF FALSE \notin ReturnsEmpty(min_d, max_d, p)
    THEN {}
    ELSE IF trials = 0
    THEN {"RuntimeError"}
    ELSE IF Arities(k) = {}
    THEN {"IndexError"}
    ELSE (IF \E r \in Candidates(max_d, p, k) : ~Accepted(r, min_d, k)
          THEN {"RuntimeError"} ELSE {})
         \cup ChildRaises(max_d, p)

\* ------------------------------------------------------------------ state
VARIABLES
    x, y,   \* two program variables holding compositions
    file,   \* the saved file: <<>> when absent, <<tree>> when written
    last,   \* the last call: operation, label, number of terms, error, result
    rnd     \* a call of Composition.random: its arguments, position and outcome

vars == <<x, y, file, last, rnd>>

RECURSIVE size(_)
RECURSIVE SumSizes(_)

SumSizes(terms) ==
    IF terms = <<>> THEN 0 ELSE size(Head(terms)) + SumSizes(Tail(terms))

\* Number of nodes of a composition or of a saved tree.
size(c) == 1 + SumSizes(c.terms)

\* The values a call can take as arguments: e and the two variables.
Vals == {e, x, y}

NoCall == [op |-> "none", label |-> Empty, n |-> 0, err |-> "none", out |-> <<>>]

\* A call of Composition.random at its first line, before any draw.
RandomCall(min_d, max_d, p, k, trials) ==
    [pc |-> "called", min_depth |-> min_d, max_depth |-> max_d,
     prob_empty |-> p, max_arity |-> k, max_trials |-> trials,
     trial |-> 0, err |-> "none", out |-> <<>>]

\* No call of Composition.random is under way.
NoRandom == [RandomCall(None, 0, 0, 0, 0) EXCEPT !.pc = "idle"]

Init ==
    /\ x = e
    /\ y = e
    /\ file = <<>>
    /\ last = NoCall
    /\ rnd = NoRandom

\* The result r is bound to one of the two variables.
Bind(r) ==
    \/ x' = r /\ y' = y
    \/ x' = x /\ y' = r

Fits == size(x') + size(y') + SumSizes(file') <= MaxNodes

\* A call label(*terms): the assert fails and nothing is built, or the
\* normalised value is returned.
Call(op, label, terms) ==
    IF Precondition(terms, label)
    THEN LET r == Composition(terms, label)
         IN  /\ Bind(r)
             /\ file' = file
             /\ rnd' = rnd
             /\ Fits
             /\ last' = [op |-> op, label |-> label, n |-> Len(terms),
                         err |-> "none", out |-> <<r>>]
    ELSE /\ UNCHANGED <<x, y, file, rnd>>
         /\ last' = [op |-> op, label |-> label, n |-> Len(terms),
                     err |-> "AssertionError", out |-> <<>>]

\* Label.__call__ / Composition(*terms, label=label)
Build ==
    \E label \in Label, n \in 0..MaxArity :
        \E terms \in [1..n -> Vals] : Call("build", label, terms)

\* a | b
Or ==
    \E a \in Vals, b \in Vals : Call("or", Horizontal, <<a, b>>)

\* a & b
And ==
    \E a \in Vals, b \in Vals : Call("and", Vertical, <<a, b>>)

\* c.save(path)
Save ==
    \E c \in Vals :
        /\ file' = <<asdict(c)>>
        /\ UNCHANGED <<x, y, rnd>>
        /\ Fits
        /\ last' = [op |-> "save", label |-> c.label, n |-> Len(c.terms),
                    err |-> "none", out |-> <<c>>]

\* Composition.load(path)
Load ==
    /\ file # <<>>
    /\ LET r == from_dict(file[1])
       IN  /\ Bind(r)
           /\ file' = file
           /\ rnd' = rnd
           /\ Fits
           /\ last' = [op |-> "load", label |-> r.label, n |-> Len(r.terms),
                       err |-> "none", out |-> <<r>>]

Next == Build \/ Or \/ And \/ Save \/ Load

Spec == Init /\ [][Next]_vars

\* ------------------------------------------------- Composition.random, run
\* Composition.random is called with any arguments within the bounds.
InitRandom ==
    /\ x = e
    /\ y = e
    /\ file = <<>>
    /\ last = NoCall
    /\ \E min_d \in {None} \cup 0..MaxDepth, max_d \in 0..MaxDepth,
          p \in ProbEmpty, k \in 0..MaxArityArg, trials \in 0..MaxTrials :
           rnd = RandomCall(min_d, max_d, p, k, trials)

\* if not max_depth or not min_depth and random.random() <= prob_empty:
\*     return Composition()
Enter ==
    /\ rnd.pc = "called"
    /\ \E empty \in ReturnsEmpty(rnd.min_depth, rnd.max_depth, rnd.prob_empty) :
           rnd' = IF empty
                  THEN [rnd EXCEPT !.pc = "returned", !.out = <<e>>]
                  ELSE [rnd EXCEPT !.pc = "loop"]
    /\ UNCHANGED <<x, y, file, last>>

\* One pass of for trial in range(max_trials): random.choice raises on an
\* empty range, the call for a child raises, or the candidate is built and
\* then returned or rejected.
Trial ==
    /\ rnd.pc = "loop"
    /\ rnd.trial < rnd.max_trials
    /\ \/ /\ Arities(rnd.max_arity) = {}
          /\ rnd' = [rnd EXCEPT !.pc = "raised", !.err = "IndexError"]
       \/ /\ Arities(rnd.max_arity) # {}
          /\ \E err \in ChildRaises(rnd.max_depth, rnd.prob_empty) :
                 rnd' = [rnd EXCEPT !.pc = "raised", !.err = err]
       \/ \E result \in Candidates(rnd.max_depth, rnd.prob_empty, rnd.max_arity) :
              rnd' = IF Accepted(result, rnd.min_depth, rnd.max_arity)
                     THEN [rnd EXCEPT !.pc = "returned", !.out = <<result>>]
                     ELSE [rnd EXCEPT !.trial = @ + 1]
    /\ UNCHANGED <<x, y, file, last>>

\* The loop ends without a return: raise RuntimeError.
Exhaust ==
    /\ rnd.pc = "loop"
    /\ rnd.trial = rnd.max_trials
    /\ rnd' = [rnd EXCEPT !.pc = "raised", !.err = "RuntimeError"]
    /\ UNCHANGED <<x, y, file, last>>

NextRandom == Enter \/ Trial \/ Exhaust

SpecRandom == InitRandom /\ [][NextRandom]_vars

\* ---------------------------------------------------------- reachable values
RECURSIVE Nodes(_)

\* A composition and every composition nested in it.
Nodes(c) == {c} \cup UNION {Nodes(c.terms[j]) : j \in DOMAIN c.terms}

\* The argument lists a call can be given: 1..MaxArity current values.
ArgLists == UNION {[1..n -> Vals] : n \in 1..MaxArity}

\* What the constructor returns for any call on the current values.
Built == {Composition(ts, l) : ts \in ArgLists, l \in {Horizontal, Vertical}}

\* Every node of every value held or returned by one more call.
AllNodes == UNION {Nodes(c) : c \in Vals \cup Built}

\* What a | b and a & b return for the current values.
BuiltPairs ==
    {Composition(<<a, b>>, l) : a \in Vals, b \in Vals, l \in {Horizontal, Vertical}}

\* Every node of every value held or returned by one more binary call.
NearNodes == UNION {Nodes(c) : c \in Vals \cup BuiltPairs}

\* Every node of the values held in the variables.
HeldNodes == Nodes(x) \cup Nodes(y)

\* The last operation returned a value.
Returned == last.err = "none" /\ last.out # <<>>

\* ------------------------------------------------------------------ C1
\* C1 as stated (I2): no reachable composition, at the root or nested, has a
\* direct child whose label equals its own label.
C1_NoChildWithOwnLabel ==
    \A c \in HeldNodes : \A j \in DOMAIN c.terms : c.terms[j].label # c.label

\* C1 amended: no reachable composition, at the root or nested, has ALL its
\* direct children carrying its own label with one common number of terms
\* (children that differ in label or in length are kept unspliced).
C1_NoAlikeChildrenWithOwnLabel ==
    \A c \in NearNodes :
        c.terms # <<>> =>
            ~(AllAlike(c.terms) /\ \A j \in DOMAIN c.terms : c.terms[j].label = c.label)

\* The flatten rewrite has fired: a call returned its own label with more
\* terms than it was given.
C1_Witness ==
    /\ Returned
    /\ last.op = "build"
    /\ last.out[1].label = last.label
    /\ Len(last.out[1].terms) > last.n

\* ------------------------------------------------------------------ C2
\* C2 (I3, grid-normal): no reachable composition, at the root or nested, is
\* Horizontal with every child Vertical and all children of the same length.
C2_GridNormal ==
    \A c \in AllNodes :
        ~(/\ c.label = Horizontal
          /\ c.terms # <<>>
          /\ \A j \in DOMAIN c.terms : c.terms[j].label = Vertical
          /\ Cardinality(lengths(c.terms)) = 1)

\* The transpose has fired on a grid whose rows were themselves rewritten by
\* the inner Horizontal builds: a Horizontal call returned a Vertical value
\* one of whose rows is not the plain row of the arguments.
C2_Witness ==
    /\ Returned
    /\ last.label = Horizontal
    /\ last.out[1].label = Vertical
    /\ \E i \in DOMAIN last.out[1].terms :
           Len(last.out[1].terms[i].terms) # last.n

\* ------------------------------------------------------------------ C3
\* C3 (I1): at every node of every reachable composition, label = Empty iff
\* the node has no terms.
C3_EmptyIffNoTerms ==
    \A c \in NearNodes : (c.label = Empty) <=> (c.terms = <<>>)

\* A rewrite (flatten or transpose) has fired: the value returned does not
\* have the number of terms the call was given.
C3_Witness ==
    /\ Returned
    /\ last.op \in {"build", "or", "and"}
    /\ Len(last.out[1].terms) # last.n
    /\ last.out[1].terms # <<>>

\* ------------------------------------------------------------------ C4
\* The call label(*terms) returns label and terms exactly as given.
Kept(terms, label) == Composition(terms, label) = [label |-> label, terms |-> terms]

\* n copies of t.
Copies(n, t) == [j \in 1..n |-> t]

\* The values L(a, b) for every pair of current values.
Pairs(L) == [p \in Vals \X Vals |-> Composition(<<p[1], p[2]>>, L)]

\* C4 as stated: for all reachable a, b, c and L in {Horizontal, Vertical},
\* L(L(a, b), c) == L(a, L(b, c)) == L(a, b, c).
C4_AnyNestingSameValue ==
    \A L \in {Horizontal, Vertical} :
        LET pair == Pairs(L)
        IN  \A a \in Vals, b \in Vals, c \in Vals :
                LET left == Composition(<<pair[<<a, b>>], c>>, L)
                    right == Composition(<<a, pair[<<b, c>>]>>, L)
                    flat == Composition(<<a, b, c>>, L)
                IN  left = right /\ left = flat

\* C4 amended: the value is independent of the grouping only for groups of
\* equal size: when L keeps the groups (a,b,c), (a,b), (c,a), (b,c) as given,
\* L of two groups of three, L of three groups of two and L of the six
\* members are the same value; the binary nestings L(L(a, b), c),
\* L(a, L(b, c)) and the flat L(a, b, c) are three different values.
C4_EqualGroupsSameValue ==
    \A L \in {Horizontal, Vertical} :
        LET pair == Pairs(L)
        IN  \A a \in Vals, b \in Vals, c \in Vals :
                LET left == Composition(<<pair[<<a, b>>], c>>, L)
                    right == Composition(<<a, pair[<<b, c>>]>>, L)
                    abc == Composition(<<a, b, c>>, L)
                    six == Composition(<<a, b, c, a, b, c>>, L)
                    IsKept(g, ts) == g = [label |-> L, terms |-> ts]
                IN  /\ left # right /\ left # abc /\ right # abc
                    /\ (IsKept(abc, <<a, b, c>>) /\ IsKept(pair[<<a, b>>], <<a, b>>)
                            /\ IsKept(pair[<<c, a>>], <<c, a>>)
                            /\ IsKept(pair[<<b, c>>], <<b, c>>))
                        => /\ Composition(<<abc, abc>>, L) = six
                           /\ Composition(<<pair[<<a, b>>], pair[<<c, a>>],
                                            pair[<<b, c>>]>>, L) = six

\* Equal groups with members other than e are available after a call: L keeps
\* (x, y, e) and its pairs, with x and y different values that are not e.
C4_Witness ==
    /\ Returned
    /\ x # e /\ y # e /\ x # y
    /\ \E L \in {Horizontal, Vertical} :
           /\ Kept(<<x, y, e>>, L) /\ Kept(<<x, y>>, L)
           /\ Kept(<<e, x>>, L) /\ Kept(<<y, e>>, L)

\* ------------------------------------------------------------------ C5
\* C5 as stated: for all reachable a, b, c, d and L,
\* L(L(a, b), L(c, d)) == L(a, b, c, d).
C5_AnyPairsFlatten ==
    \A L \in {Horizontal, Vertical} :
        LET pair == Pairs(L)
        IN  \A a \in Vals, b \in Vals, c \in Vals, d \in Vals :
                Composition(<<pair[<<a, b>>], pair[<<c, d>>]>>, L)
                    = Composition(<<a, b, c, d>>, L)

\* C5 amended: L(L(a, b), L(c, d)) == L(a, b, c, d) whenever L keeps the pairs
\* (a, b) and (c, d) as given; and L applied to reachable L-labelled groups
\* that all have the same number of terms equals L applied to the
\* concatenation of their terms.
C5_EqualGroupsFlatten ==
    \A L \in {Horizontal, Vertical} :
        LET pair == Pairs(L)
            IsKept(g, ts) == g = [label |-> L, terms |-> ts]
        IN  /\ \A a \in Vals, b \in Vals, c \in Vals, d \in Vals :
                   (IsKept(pair[<<a, b>>], <<a, b>>) /\ IsKept(pair[<<c, d>>], <<c, d>>)) =>
                       Composition(<<pair[<<a, b>>], pair[<<c, d>>]>>, L)
                           = Composition(<<a, b, c, d>>, L)
            /\ \A gs \in ArgLists :
                   ((\A j \in DOMAIN gs : gs[j].label = L)
                        /\ Cardinality(lengths(gs)) = 1) =>
                       Composition(gs, L) = Composition(SumTerms(gs), L)

\* Two different groups of one label and one length are held after a call.
C5_Witness ==
    /\ Returned
    /\ x # y
    /\ x.label = y.label /\ x.label # Empty
    /\ Len(x.terms) = Len(y.terms)

\* ------------------------------------------------------------------ C6
\* C6 as stated: for all reachable a, b, c, d,
\* H(V(a, b), V(c, d)) == V(H(a, c), H(b, d)).
C6_AnyPairsDistribute ==
    LET strip == Pairs(Vertical)
        row == Pairs(Horizontal)
    IN  \A a \in Vals, b \in Vals, c \in Vals, d \in Vals :
            Composition(<<strip[<<a, b>>], strip[<<c, d>>]>>, Horizontal)
                = Composition(<<row[<<a, c>>], row[<<b, d>>]>>, Vertical)

\* C6 amended: H(V(a, b), V(c, d)) == V(H(a, c), H(b, d)) whenever Vertical
\* keeps the pairs (a, b) and (c, d) as given; and for every reachable tile t,
\* Horizontal of n Vertical strips of k copies of t equals Vertical of k
\* Horizontal rows of n copies of t.
C6_KeptPairsDistribute ==
    LET strip == Pairs(Vertical)
        row == Pairs(Horizontal)
        IsKept(g, ts) == g = [label |-> Vertical, terms |-> ts]
    IN  /\ \A a \in Vals, b \in Vals, c \in Vals, d \in Vals :
               (IsKept(strip[<<a, b>>], <<a, b>>) /\ IsKept(strip[<<c, d>>], <<c, d>>)) =>
                   Composition(<<strip[<<a, b>>], strip[<<c, d>>]>>, Horizontal)
                       = Composition(<<row[<<a, c>>], row[<<b, d>>]>>, Vertical)
        /\ \A t \in Vals, n \in 1..MaxArity, k \in 1..MaxArity :
               Composition(Copies(n, Composition(Copies(k, t), Vertical)), Horizontal)
                   = Composition(Copies(k, Composition(Copies(n, t), Horizontal)), Vertical)

\* Strips with members other than e are held after a call: Vertical keeps
\* (x, y) and (y, x), and x, y are different values that are not e.
C6_Witness ==
    /\ Returned
    /\ x # e /\ y # e /\ x # y
    /\ Kept(<<x, y>>, Vertical) /\ Kept(<<y, x>>, Vertical)

\* ------------------------------------------------------------------ C7
\* C7: rebuilding a reachable composition from its own label and terms
\* passes the assert and returns an equal value.
C7_RebuildReturnsSame ==
    \A c \in Vals \cup Built :
        Precondition(c.terms, c.label) /\ Composition(c.terms, c.label) = c

\* A Horizontal call was transposed into a Vertical value whose rows are all
\* Horizontal with one length: the shape the mirrored rule would rewrite.
C7_Witness ==
    /\ Returned
    /\ last.label = Horizontal
    /\ last.out[1].label = Vertical
    /\ AllAlike(last.out[1].terms)
    /\ last.out[1].terms[1].label = Horizontal

\* ------------------------------------------------------------------ C8
\* C8: load after save returns a value equal to the one saved: decoding the
\* tree written for any reachable composition (e included) rebuilds it, the
\* record of to_dict tells any two reachable compositions apart, and the
\* value a load returns is the one whose tree is in the file.
C8_LoadAfterSave ==
    /\ \A c \in Vals \cup BuiltPairs : from_dict(asdict(c)) = c
    /\ \A c \in Vals \cup BuiltPairs, d \in Vals \cup BuiltPairs :
           to_dict(c) = to_dict(d) => c = d
    /\ (last.op = "load" /\ Returned) => asdict(last.out[1]) = file[1]

\* A load has returned a value with terms from the file, into a variable
\* that held another value.
C8_Witness ==
    /\ last.op = "load"
    /\ Returned
    /\ last.out[1] # e
    /\ x # y

\* ------------------------------------------------------------------ C9
\* The shape (label, number of terms) of a call violates the precondition.
InvalidShape(label, n) ==
    \/ (label \in {Horizontal, Vertical} /\ n = 0)
    \/ (label = Empty /\ n > 0)

\* C9: a constructor call fails (AssertionError) exactly when its shape is
\* invalid: Horizontal or Vertical with no terms, or Empty with terms; the
\* failing call returns no value and leaves every held value as it was.
C9_InvalidShapeFails ==
    [][last'.op \in {"build", "or", "and"} =>
          /\ (last'.err = "AssertionError") <=> InvalidShape(last'.label, last'.n)
          /\ InvalidShape(last'.label, last'.n) =>
                 (last'.out = <<>> /\ x' = x /\ y' = y /\ file' = file)]_vars

\* Horizontal() with no terms has failed while a built value is held.
C9_Witness ==
    /\ last.err = "AssertionError"
    /\ last.label = Horizontal
    /\ last.n = 0
    /\ x # e

\* ------------------------------------------------------------------ C10
\* C10: whatever the draws, a composition returned by Composition.random called
\* with min_depth = d0 <= max_depth = d1 and max_arity = k has depth at least
\* d0 and max_arity at most k.
C10_DepthArityBounds ==
    (/\ rnd.pc = "returned"
     /\ rnd.min_depth \in 0..rnd.max_depth)
        => /\ depth(rnd.out[1]) >= rnd.min_depth
           /\ max_arity(rnd.out[1]) <= rnd.max_arity

\* A call with min_depth >= 1 returns a composition after a rejected trial.
C10_Witness ==
    /\ rnd.pc = "returned"
    /\ rnd.min_depth \in 1..rnd.max_depth
    /\ rnd.trial >= 1
    /\ rnd.out[1] # e
    /\ depth(rnd.out[1]) = rnd.min_depth
    /\ max_arity(rnd.out[1]) <= rnd.max_arity

\* ------------------------------------------------------------------ C11
\* C11: whatever the draws, a composition returned by Composition.random has
\* depth at most max_depth, and every value the call for a child can return
\* has depth at most max_depth - 1, also when the constructor flattens or
\* transposes the candidate.
C11_DepthAtMostMaxDepth ==
    /\ rnd.pc = "returned" => depth(rnd.out[1]) <= rnd.max_depth
    /\ rnd.pc = "loop" =>
           \A c \in ChildValues(rnd.max_depth, rnd.prob_empty) :
               depth(c) <= rnd.max_depth - 1

\* A returned composition of depth max_depth that a trial builds by a
\* transpose: Horizontal over the children gives a Vertical composition.
C11_Witness ==
    /\ rnd.pc = "returned"
    /\ rnd.trial >= 1
    /\ depth(rnd.out[1]) = rnd.max_depth
    /\ \E cls \in {Horizontal, Vertical}, n \in Arities(rnd.max_arity) :
           \E ts \in [1..n -> ChildValues(rnd.max_depth, rnd.prob_empty)] :
               /\ Composition(ts, cls) = rnd.out[1]
               /\ cls = Horizontal
               /\ rnd.out[1].label = Vertical

\* ------------------------------------------------------------------ C12
\* The call has ended: it returned a value or raised.
Ended == rnd.pc \in {"returned", "raised"}

\* C12 as stated: the generator always terminates: a level makes at most
\* max_trials trials, a call that has not ended can take a step, a call that
\* fails fails with RuntimeError (GenerationExhausted), and a call that
\* returns returns a value within its constraints, so that a call with
\* min_depth > max_depth never returns.
C12_TerminatesOrExhausts ==
    /\ rnd.trial <= rnd.max_trials
    /\ Ended \/ ENABLED NextRandom
    /\ rnd.pc = "raised" => rnd.err = "RuntimeError"
    /\ rnd.pc = "returned" =>
           /\ depth(rnd.out[1]) >= OrZero(rnd.min_depth)
           /\ depth(rnd.out[1]) <= rnd.max_depth
           /\ max_arity(rnd.out[1]) <= rnd.max_arity

\* C12, the part that holds: a level makes at most max_trials trials, a call
\* that has not ended can take a step, and a trial never returns a value it
\* should reject.
C12_BoundedTrials ==
    /\ rnd.trial <= rnd.max_trials
    /\ Ended \/ ENABLED NextRandom
    /\ (rnd.pc = "returned" /\ rnd.max_depth # 0) =>
           Accepted(rnd.out[1], rnd.min_depth, rnd.max_arity)
    /\ rnd.pc = "raised" => rnd.err \in {"RuntimeError", "IndexError"}
    /\ rnd.err = "IndexError" => Arities(rnd.max_arity) = {}

\* Composition.random(max_arity=2) has failed in its first trial, with
\* trials left, with IndexError and not RuntimeError.
C12_Witness ==
    /\ rnd.pc = "raised"
    /\ rnd.err = "IndexError"
    /\ rnd.max_arity = 2
    /\ rnd.min_depth \in 1..rnd.max_depth
    /\ rnd.trial = 0
    /\ rnd.max_trials >= 1

\* ------------------------------------------------------------------ C13
\* All the children are Horizontal with one number of terms.
AllHorizontalAlike(terms) ==
    AllAlike(terms) /\ \A j \in DOMAIN terms : terms[j].label = Horizontal

\* C13: label(*terms) returns exactly the given label and the given terms, in
\* their order, when the children do not all share one label and one number
\* of terms, and when label is Vertical over Horizontal children of one
\* number of terms, for every list of 1..MaxArity reachable values.
C13_KeptAsGiven ==
    \A label \in {Horizontal, Vertical}, terms \in ArgLists :
        (\/ ~AllAlike(terms)
         \/ (label = Vertical /\ AllHorizontalAlike(terms)))
            => Composition(terms, label) = [label |-> label, terms |-> terms]

\* x and y are Horizontal with one number of terms: x & y keeps them as
\* given, where x | y splices them, and with e the children are not alike.
C13_Witness ==
    /\ x.label = Horizontal /\ y.label = Horizontal
    /\ Len(x.terms) = Len(y.terms)
    /\ Composition(<<x, y>>, Vertical) = [label |-> Vertical, terms |-> <<x, y>>]
    /\ Composition(<<x, y>>, Horizontal) # [label |-> Horizontal, terms |-> <<x, y>>]
    /\ ~AllAlike(<<x, e, y>>)
    /\ Composition(<<x, e, y>>, Horizontal)
           = [label |-> Horizontal, terms |-> <<x, e, y>>]

\* ------------------------------------------------------------------ C14
RECURSIVE leaves(_)
RECURSIVE SumLeaves(_)

SumLeaves(terms) ==
    IF terms = <<>> THEN 0 ELSE leaves(Head(terms)) + SumLeaves(Tail(terms))

\* The number of Empty leaves (tiles) of a composition; e is one leaf.
leaves(c) == IF c.terms = <<>> THEN 1 ELSE SumLeaves(c.terms)

\* C14: for label Horizontal or Vertical and every list of 1..MaxArity
\* reachable values, label(*terms) has as many Empty leaves as its terms
\* have together; flattening and transposing drop and duplicate no leaf.
C14_LeavesConserved ==
    \A label \in {Horizontal, Vertical}, terms \in ArgLists :
        leaves(Composition(terms, label)) = SumLeaves(terms)

\* A transposed grid whose cells differ in their number of leaves, and a
\* spliced pair, both with the leaves of their terms.
C14_Witness ==
    \E a \in Vals :
        /\ a.label = Vertical
        /\ \E i \in DOMAIN a.terms, j \in DOMAIN a.terms :
               leaves(a.terms[i]) # leaves(a.terms[j])
        /\ Composition(<<a, a>>, Horizontal).label = Vertical
        /\ ~Kept(<<a, a>>, Vertical)
        /\ leaves(Composition(<<a, a>>, Horizontal)) = 2 * leaves(a)
        /\ leaves(Composition(<<a, a>>, Vertical)) = 2 * leaves(a)

====
